---- MODULE Spec2Model ----
(***************************************************************************)
(* The candidate search route (src/app/api/search/route.ts): one POST      *)
(* request against a candidate store whose similarity search is the        *)
(* match_candidates SQL function of the README (src/unnamed/part_001).     *)
(* The CandidateSearch component (src/unnamed/part_000) that calls the     *)
(* route has a specification of its own, ComponentSpec, and so has the     *)
(* script that fills the embeddings of the store (embedAllCandidates,      *)
(* src/unnamed/part_001): ScriptSpec.                                      *)
(*                                                                         *)
(* Texts are sequences of tokens: 0 is a whitespace character, a positive  *)
(* number is a word.  A similarity is a fixed-point number in thousandths  *)
(* (910 is 0.91).  Messages of errors are sequences of words.              *)
(***************************************************************************)
EXTENDS Integers, Sequences, FiniteSets, TLC

VARIABLES
    store,            \* the candidates table: id -> CandidateRecord
    apiKey,           \* openai.apiKey: TRUE when OPENAI_API_KEY is set
    request,          \* the request body as it will parse
    pc,               \* the await POST is suspended at
    query,            \* const { query } once the body is parsed
    queryEmbedding,   \* embeddingResponse.data[0].embedding
    countResult,      \* what the count pre-check returned
    primaryOutcome,   \* what the primary rpc returned
    fallbackOutcome,  \* what the fallback rpc returned
    path,             \* which shaping code is running: primary or fallback
    tasks,            \* the promises Promise.all joins, in row order
    completionOrder,  \* candidate ids in the order their chat calls settled
    embedCalls,       \* inputs of openai.embeddings.create calls issued
    countCalls,       \* number of count queries issued
    rpcCalls,         \* arguments of match_candidates calls issued
    chatCalls,        \* candidate ids of chat completion calls issued
    responses,        \* responses POST returned
    escaped,          \* an exception left POST uncaught
    messages,         \* CandidateSearch: the transcript
    input,            \* CandidateSearch: the text of the textarea
    isSearching,      \* CandidateSearch: a search is under way
    searches,         \* calls of handleSubmit suspended at an await
    fetchCalls,       \* queries of the fetch calls issued
    started,          \* number of searches started
    lastEvent,        \* the event handled last
    candidates,       \* embedAllCandidates: the rows fetched
    scriptPc,         \* embedAllCandidates: the await it is suspended at
    cursor,           \* index of the candidate the loop is at
    candidateEmbedding, \* response.data[0].embedding of that candidate
    embeddingCalls,   \* candidate ids of the embedding calls issued
    updateCalls,      \* candidate ids of the update calls issued
    visited,          \* candidates the loop is through with, and how
    exit              \* how the script ended

routeVars == <<store, apiKey, request, pc, query, queryEmbedding, countResult,
               primaryOutcome, fallbackOutcome, path, tasks, completionOrder,
               embedCalls, countCalls, rpcCalls, chatCalls, responses, escaped>>

componentVars == <<messages, input, isSearching, searches, fetchCalls,
                   started, lastEvent>>

scriptVars == <<candidates, scriptPc, cursor, candidateEmbedding,
                embeddingCalls, updateCalls, visited, exit>>

vars == <<routeVars, componentVars, scriptVars>>

-----------------------------------------------------------------------------
(* Bounds and program constants *)

NumCandidates == 2

\* a primary threshold that favours precision
StricterThreshold == 300 + 550

PrimaryThreshold == 300

\* the fallback retrieval repeated with the primary threshold
SameThreshold == PrimaryThreshold

FallbackThreshold == 0

MatchCount == 5

-----------------------------------------------------------------------------
(* Texts *)

NULL == <<-1>>

RECURSIVE TrimStart(_)
TrimStart(s) ==
    IF s # <<>> /\ Head(s) = 0 THEN TrimStart(Tail(s)) ELSE s

RECURSIVE TrimEnd(_)
TrimEnd(s) ==
    IF s # <<>> /\ s[Len(s)] = 0 THEN TrimEnd(SubSeq(s, 1, Len(s) - 1)) ELSE s

\* String.prototype.trim
Trim(s) == TrimEnd(TrimStart(s))

\* JavaScript truthiness of a value that is a string, null or undefined
Truthy(s) == s # NULL /\ s # <<>>

\* 'No additional information available'
Sentinel == <<90>>

\* the text the justification service writes for candidate id, as returned
GeneratedContent(id) == <<0, 100 + id, 0>>

-----------------------------------------------------------------------------
(* The candidate store *)

Ids == 1 .. NumCandidates

\* The candidates a table row with this id may be (README: CREATE TABLE
\* candidates).  An embedding is a vector, here of one coordinate; NULL when
\* the embedding script has not filled it.
Profiles(id) ==
    { [id |-> id, name |-> <<200 + id>>, cv_info |-> <<id>>,
       embedding |-> <<1>>, linkedin_url |-> <<300 + id>>, cv_url |-> <<400 + id>>],
      [id |-> id, name |-> <<200 + id>>, cv_info |-> <<0, id, 0>>,
       embedding |-> <<2>>, linkedin_url |-> <<300 + id>>, cv_url |-> NULL],
      [id |-> id, name |-> <<>>, cv_info |-> <<0>>,
       embedding |-> <<3>>, linkedin_url |-> NULL, cv_url |-> NULL],
      [id |-> id, name |-> <<200 + id>>, cv_info |-> <<>>,
       embedding |-> <<4>>, linkedin_url |-> <<>>, cv_url |-> <<400 + id>>],
      [id |-> id, name |-> <<200 + id>>, cv_info |-> NULL,
       embedding |-> <<1>>, linkedin_url |-> NULL, cv_url |-> <<>>],
      [id |-> id, name |-> <<200 + id>>, cv_info |-> <<id>>,
       embedding |-> <<5>>, linkedin_url |-> NULL, cv_url |-> NULL],
      [id |-> id, name |-> <<200 + id>>, cv_info |-> <<id>>,
       embedding |-> NULL, linkedin_url |-> NULL, cv_url |-> NULL] }

Stores == { t \in [Ids -> UNION { Profiles(id) : id \in Ids }] :
              \A id \in Ids : t[id] \in Profiles(id) }

\* the vectors the embedding service returns for a query
QueryEmbeddings == { <<1>>, <<2>> }

\* 1 - (candidates.embedding <=> query_embedding), in thousandths: row q is
\* the query vector, column e the stored vector
SimilarityTable ==
    << <<910, 850, 300, 125, -200>>,
       <<45, 0, 600, 1000, -1000>> >>

Similarity(embedding, query_embedding) ==
    SimilarityTable[query_embedding[1]][embedding[1]]

\* one row of RETURNS TABLE (id, name, cv_info, similarity, linkedin_url, cv_url)
MatchRow(c, query_embedding) ==
    [id |-> c.id, name |-> c.name, cv_info |-> c.cv_info,
     similarity |-> Similarity(c.embedding, query_embedding),
     linkedin_url |-> c.linkedin_url, cv_url |-> c.cv_url]

\* WHERE candidates.embedding IS NOT NULL AND 1 - (...) > match_threshold
Matching(table, query_embedding, match_threshold) ==
    { id \in DOMAIN table :
        /\ table[id].embedding # NULL
        /\ Similarity(table[id].embedding, query_embedding) > match_threshold }

Min(a, b) == IF a < b THEN a ELSE b

\* The results match_candidates may return: the matching rows by descending
\* similarity, cut at match_count.  SQL leaves the order of equal
\* similarities open, so this is the set of the orders it may choose.
MatchCandidates(table, query_embedding, match_threshold, match_count) ==
    LET m == Matching(table, query_embedding, match_threshold)
        k == Min(match_count, Cardinality(m))
        sim(id) == Similarity(table[id].embedding, query_embedding)
        orders == { s \in [1 .. k -> m] :
                      /\ \A i, j \in 1 .. k : i < j =>
                            /\ s[i] # s[j]
                            /\ sim(s[i]) >= sim(s[j])
                      /\ \A id \in m : (\A i \in 1 .. k : s[i] # id) =>
                            \A i \in 1 .. k : sim(s[i]) >= sim(id) }
    IN  { [i \in 1 .. k |-> MatchRow(table[s[i]], query_embedding)] : s \in orders }

\* .select('*', { count: 'exact', head: true }).not('embedding', 'is', null)
CountEmbedded(table) ==
    Cardinality({ id \in DOMAIN table : table[id].embedding # NULL })

-----------------------------------------------------------------------------
(* Shaping a row into a MatchResult *)

\* Math.floor in the place of Math.round
MathFloor(num, den) == num \div den

\* Math.round of the fraction num / den: the nearest integer, a half rounded up
MathRound(num, den) == (2 * num + den) \div (2 * den)

\* Math.round((item.similarity || 0) * 100)
Accuracy(similarity) == MathRound(similarity * 100, 1000)

\* the test without its trim: item.cv_info alone
TruthyProfileText(item) == Truthy(item.cv_info)

\* item.cv_info && item.cv_info.trim()
HasProfileText(item) == Truthy(item.cv_info) /\ Truthy(Trim(item.cv_info))

\* item.full_name: the field as the row carries it, undefined when it has none
FullName(item) == IF "full_name" \in DOMAIN item THEN item.full_name ELSE NULL

\* ...(value && { key: value })
Spread(value, key) == IF Truthy(value) THEN (key :> value) ELSE << >>

\* 'Unknown'
Unknown == <<91>>

\* the object the mapped function of the primary path returns
PrimaryResult(item, reason) ==
    [id |-> item.id,
     name |-> IF Truthy(FullName(item)) THEN FullName(item) ELSE Unknown,
     accuracy |-> Accuracy(item.similarity),
     reason |-> reason]
    @@ Spread(item.linkedin_url, "linkedinUrl")
    @@ Spread(item.cv_url, "cvUrl")

\* the fallback variant that leaves the link fields out
FallbackResultWithoutLinks(item, reason) ==
    [id |-> item.id,
     name |-> IF Truthy(FullName(item)) THEN FullName(item) ELSE Unknown,
     accuracy |-> Accuracy(item.similarity),
     reason |-> reason]

\* the object the mapped function of the fallback path returns
FallbackResult(item, reason) ==
    [id |-> item.id,
     name |-> IF Truthy(FullName(item)) THEN FullName(item) ELSE Unknown,
     accuracy |-> Accuracy(item.similarity),
     reason |-> reason]
    @@ Spread(item.linkedin_url, "linkedinUrl")
    @@ Spread(item.cv_url, "cvUrl")

\* What a chat completion call may do: throw, or return a response whose
\* choices[0]?.message?.content is a text, an empty text, whitespace or
\* missing
ChatOutcomes(id) ==
    { [throws |-> TRUE, content |-> NULL],
      [throws |-> FALSE, content |-> GeneratedContent(id)],
      [throws |-> FALSE, content |-> <<>>],
      [throws |-> FALSE, content |-> <<0>>],
      [throws |-> FALSE, content |-> NULL] }

\* the expression without its trim: content || item.cv_info
UntrimmedOr(content, cv_info) ==
    IF content # NULL /\ Truthy(content) THEN content ELSE cv_info

\* content?.trim() || item.cv_info
TrimmedOr(content, cv_info) ==
    IF content # NULL /\ Truthy(Trim(content)) THEN Trim(content) ELSE cv_info

\* the catch block without its assignment: reason stays as initialised
ReasonKeptOnFailure(item, outcome) ==
    IF outcome.throws THEN Sentinel
    ELSE TrimmedOr(outcome.content, item.cv_info)

\* reason, as the try / catch of the primary path leaves it
PrimaryReason(item, outcome) ==
    IF outcome.throws THEN item.cv_info
    ELSE TrimmedOr(outcome.content, item.cv_info)

\* reason, as the try / catch of the fallback path leaves it
FallbackReason(item, outcome) ==
    IF outcome.throws THEN item.cv_info
    ELSE TrimmedOr(outcome.content, item.cv_info)

-----------------------------------------------------------------------------
(* Requests, errors and responses *)

\* the values the body's query field may hold, by their JavaScript type
QueryValues ==
    { [type |-> "undefined", val |-> <<>>],
      [type |-> "null", val |-> <<>>],
      [type |-> "number", val |-> <<0>>],
      [type |-> "number", val |-> <<5>>],
      [type |-> "boolean", val |-> <<0>>],
      [type |-> "boolean", val |-> <<1>>],
      [type |-> "object", val |-> <<>>],
      [type |-> "array", val |-> <<>>],
      [type |-> "string", val |-> <<>>],
      [type |-> "string", val |-> <<0>>],
      [type |-> "string", val |-> <<50>>] }

Undefined == [type |-> "undefined", val |-> <<>>]

\* request bodies: text that is not JSON, the JSON null, or an object
Requests ==
    { [kind |-> "malformed", query |-> Undefined],
      [kind |-> "null", query |-> Undefined] }
    \cup { [kind |-> "object", query |-> q] : q \in QueryValues }

\* !query
Falsy(q) ==
    \/ q.type \in {"undefined", "null"}
    \/ q.type = "number" /\ q.val = <<0>>
    \/ q.type = "boolean" /\ q.val = <<0>>
    \/ q.type = "string" /\ q.val = <<>>

\* the check without its typeof part
TruthyQuery(q) == ~Falsy(q)

\* !(!query || typeof query !== 'string')
ValidQuery(q) == ~(Falsy(q) \/ q.type # "string")

\* what request.json() and the destructuring may throw
SyntaxError == [isError |-> TRUE, message |-> <<"Unexpected", "token">>]

TypeError == [isError |-> TRUE, message |-> <<"Cannot", "destructure", "property", "query">>]

\* what an awaited client call may throw: an Error, or a value that is none
Thrown ==
    { [isError |-> TRUE, message |-> <<"Connection", "error">>],
      [isError |-> TRUE, message |-> <<>>],
      [isError |-> FALSE, message |-> <<>>] }

\* the error objects the store client returns: missing tells whether the
\* failure is that match_candidates is not deployed
StoreErrors ==
    { [message |-> <<"Could", "not", "find", "the", "function", "match_candidates">>,
       hasMessage |-> TRUE, missing |-> TRUE],
      [message |-> <<"function", "match_candidates", "does", "not", "exist">>,
       hasMessage |-> TRUE, missing |-> TRUE],
      [message |-> <<"permission", "denied", "for", "function", "match_candidates">>,
       hasMessage |-> TRUE, missing |-> FALSE],
      [message |-> <<"relation", "candidates", "does", "not", "exist">>,
       hasMessage |-> TRUE, missing |-> FALSE],
      [message |-> <<"fetch", "failed">>, hasMessage |-> TRUE, missing |-> FALSE],
      [message |-> <<>>, hasMessage |-> TRUE, missing |-> FALSE],
      [message |-> <<>>, hasMessage |-> FALSE, missing |-> FALSE] }

NoError == [message |-> <<>>, hasMessage |-> FALSE, missing |-> FALSE]

\* String.prototype.includes, for a phrase of words
Includes(message, phrase) ==
    \E i \in 0 .. Len(message) - Len(phrase) :
        \A j \in 1 .. Len(phrase) : message[i + j] = phrase[j]

ErrorResponse(status, message) ==
    [status |-> status, kind |-> "error", error |-> message, results |-> <<>>]

\* NextResponse.json(candidates)
SuccessResponse(results) ==
    [status |-> 200, kind |-> "array", error |-> <<>>, results |-> results]

InvalidQueryResponse ==
    ErrorResponse(400, <<"Query", "is", "required", "and", "must", "be", "a", "string">>)

NotConfiguredResponse ==
    ErrorResponse(500, <<"OpenAI", "API", "key", "is", "not", "configured">>)

FunctionNotFoundResponse ==
    ErrorResponse(500, <<"Database", "function", "match_candidates", "not", "found">>)

\* the response of the if (error) block after the primary retrieval
PrimaryErrorResponse(error) ==
    IF error.hasMessage
       /\ (Includes(error.message, <<"function">>)
           \/ Includes(error.message, <<"does", "not", "exist">>))
    THEN FunctionNotFoundResponse
    ELSE ErrorResponse(500,
            IF error.hasMessage /\ error.message # <<>> THEN error.message
            ELSE <<"Failed", "to", "search", "candidates">>)

\* the response of the catch block
CatchResponse(error) ==
    ErrorResponse(500,
        IF error.isError THEN error.message ELSE <<"Internal", "server", "error">>)

-----------------------------------------------------------------------------
(* POST *)

NoOutcome == [kind |-> "none", rows |-> <<>>, error |-> NoError]

\* CandidateSearch as it mounts: useState([]), useState(''), useState(false)
ComponentInit ==
    /\ messages = <<>>
    /\ input = <<>>
    /\ isSearching = FALSE
    /\ searches = {}
    /\ fetchCalls = <<>>
    /\ started = 0
    /\ lastEvent = "none"

\* the script before embedAllCandidates() is called
ScriptInit ==
    /\ candidates = <<>>
    /\ scriptPc = "fetching"
    /\ cursor = 0
    /\ candidateEmbedding = NULL
    /\ embeddingCalls = <<>>
    /\ updateCalls = <<>>
    /\ visited = <<>>
    /\ exit = "running"

Init ==
    /\ ComponentInit
    /\ ScriptInit
    /\ store \in Stores
    /\ apiKey \in BOOLEAN
    /\ request \in Requests
    /\ pc = "parsing"
    /\ query = Undefined
    /\ queryEmbedding = NULL
    /\ countResult = "none"
    /\ primaryOutcome = NoOutcome
    /\ fallbackOutcome = NoOutcome
    /\ path = "none"
    /\ tasks = <<>>
    /\ completionOrder = <<>>
    /\ embedCalls = <<>>
    /\ countCalls = 0
    /\ rpcCalls = <<>>
    /\ chatCalls = <<>>
    /\ responses = <<>>
    /\ escaped = FALSE

\* return NextResponse.json(...)
Return(response) ==
    /\ pc' = "done"
    /\ responses' = Append(responses, response)
    /\ UNCHANGED escaped

\* the handler without its try / catch: the exception leaves POST
Rethrow(error) ==
    /\ pc' = "done"
    /\ escaped' = TRUE
    /\ UNCHANGED responses

\* try { ... } catch (error) { return NextResponse.json({ error: ... }, 500) }
Catch(error) == Return(CatchResponse(error))

\* POST suspends at its next await
Await(next) ==
    /\ pc' = next
    /\ UNCHANGED <<responses, escaped>>

\* the arguments of client.rpc('match_candidates', ...)
RpcArgs(query_embedding, match_threshold, match_count) ==
    [query_embedding |-> query_embedding,
     match_threshold |-> match_threshold,
     match_count |-> match_count]

\* the promise the mapped async function leaves for one row: it runs to its
\* first await, the chat call, or to its end when the row has no profile text
Task(item) ==
    [item |-> item,
     state |-> IF HasProfileText(item) THEN "pending" ELSE "fulfilled",
     reason |-> Sentinel,
     content |-> NULL,
     failed |-> FALSE]

Pending(ts) == { i \in 1 .. Len(ts) : ts[i].state = "pending" }

\* the ids of the rows a chat call is issued for, in row order
RECURSIVE CallsOf(_)
CallsOf(ts) ==
    IF ts = <<>> THEN <<>>
    ELSE (IF Head(ts).state = "pending" THEN <<Head(ts).item.id>> ELSE <<>>)
         \o CallsOf(Tail(ts))

TaskResult(p, t) ==
    IF p = "fallback" THEN FallbackResult(t.item, t.reason)
    ELSE PrimaryResult(t.item, t.reason)

\* results pushed as the promises settle: the rows without a chat call
\* first, then the others in the order their calls settled
SettlementOrder(p, ts, order) ==
    LET immediate == SelectSeq(ts, LAMBDA t : ~HasProfileText(t.item))
        taskOf(id) == CHOOSE t \in { ts[i] : i \in 1 .. Len(ts) } : t.item.id = id
    IN  [i \in 1 .. Len(immediate) |-> TaskResult(p, immediate[i])]
        \o [i \in 1 .. Len(order) |-> TaskResult(p, taskOf(order[i]))]

\* what await Promise.all(rows.map(async ...)) yields once every promise has
\* settled: the results in the order of the rows; order is the order the
\* chat calls settled in
PromiseAll(p, ts, order) == [i \in 1 .. Len(ts) |-> TaskResult(p, ts[i])]

\* the join without its wait: the response as soon as the map has run
JoinWithoutWait(p, ts, order) ==
    Return(SuccessResponse(PromiseAll(p, ts, order)))

\* the join: the response once no promise is pending, else the next await
Join(p, ts, order) ==
    IF Pending(ts) = {} THEN Return(SuccessResponse(PromiseAll(p, ts, order)))
    ELSE Await("justifying")

\* rows.map(async (item) => ...) followed by await Promise.all
FanOut(p, rows) ==
    LET ts == [i \in 1 .. Len(rows) |-> Task(rows[i])]
    IN  /\ path' = p
        /\ tasks' = ts
        /\ chatCalls' = chatCalls \o CallsOf(ts)
        /\ Join(p, ts, completionOrder)

\* the credential check left out
KeyNeverMissing == FALSE

\* !openai.apiKey
KeyMissing == ~apiKey

\* request.json() settles; validation, the credential check and the
\* embedding call follow
ParseBody ==
    /\ pc = "parsing"
    /\ IF request.kind = "malformed"
       THEN Catch(SyntaxError) /\ UNCHANGED <<query, embedCalls>>
       ELSE IF request.kind = "null"
       THEN Catch(TypeError) /\ UNCHANGED <<query, embedCalls>>
       ELSE /\ query' = request.query
            /\ IF ~ValidQuery(request.query)
               THEN Return(InvalidQueryResponse) /\ UNCHANGED embedCalls
               ELSE IF KeyMissing
               THEN Return(NotConfiguredResponse) /\ UNCHANGED embedCalls
               ELSE /\ embedCalls' = Append(embedCalls, request.query.val)
                    /\ Await("embedding")
    /\ UNCHANGED <<store, apiKey, request, queryEmbedding, countResult,
                   primaryOutcome, fallbackOutcome, path, tasks,
                   completionOrder, countCalls, rpcCalls, chatCalls>>

\* the embedding call with its failure swallowed: the retrieval goes on
\* without a vector
EmbeddingFailureSwallowed ==
    /\ pc = "embedding"
    /\ \/ \E e \in Thrown :
            /\ queryEmbedding' = NULL
            /\ countCalls' = countCalls + 1
            /\ Await("counting")
       \/ \E v \in QueryEmbeddings :
            /\ queryEmbedding' = v
            /\ countCalls' = countCalls + 1
            /\ Await("counting")
    /\ UNCHANGED <<store, apiKey, request, query, countResult, primaryOutcome,
                   fallbackOutcome, path, tasks, completionOrder, embedCalls,
                   rpcCalls, chatCalls>>

\* openai.embeddings.create settles; the count query follows
EmbeddingReturns ==
    /\ pc = "embedding"
    /\ \/ \E e \in Thrown :
            /\ Catch(e)
            /\ UNCHANGED <<queryEmbedding, countCalls>>
       \/ \E v \in QueryEmbeddings :
            /\ queryEmbedding' = v
            /\ countCalls' = countCalls + 1
            /\ Await("counting")
    /\ UNCHANGED <<store, apiKey, request, query, countResult, primaryOutcome,
                   fallbackOutcome, path, tasks, completionOrder, embedCalls,
                   rpcCalls, chatCalls>>

\* the pre-check used as a short cut: no embedded candidate counted, or
\* the count failing, ends the request with the empty array
CountShortCut ==
    /\ pc = "counting"
    /\ \/ \E e \in Thrown :
            /\ Catch(e)
            /\ UNCHANGED <<countResult, rpcCalls>>
       \/ \E r \in {"count", "error"} :
            /\ countResult' = r
            /\ IF r = "error" \/ CountEmbedded(store) = 0
               THEN /\ Return(SuccessResponse(<<>>))
                    /\ UNCHANGED rpcCalls
               ELSE /\ rpcCalls' = Append(rpcCalls,
                           RpcArgs(queryEmbedding, PrimaryThreshold, MatchCount))
                    /\ Await("primary")
    /\ UNCHANGED <<store, apiKey, request, query, queryEmbedding,
                   primaryOutcome, fallbackOutcome, path, tasks,
                   completionOrder, embedCalls, countCalls, chatCalls>>

\* the count query written as an update that clears the embeddings it
\* was meant to count
CountReturnsWriting ==
    /\ pc = "counting"
    /\ \/ \E e \in Thrown :
            /\ Catch(e)
            /\ UNCHANGED <<store, countResult, rpcCalls>>
       \/ \E r \in {"count", "error"} :
            /\ countResult' = r
            /\ store' = IF r = "count"
                        THEN [id \in DOMAIN store |->
                                 [store[id] EXCEPT !.embedding = NULL]]
                        ELSE store
            /\ rpcCalls' = Append(rpcCalls,
                   RpcArgs(queryEmbedding, PrimaryThreshold, MatchCount))
            /\ Await("primary")
    /\ UNCHANGED <<apiKey, request, query, queryEmbedding,
                   primaryOutcome, fallbackOutcome, path, tasks,
                   completionOrder, embedCalls, countCalls, chatCalls>>

\* the count query settles; the primary retrieval follows
CountReturns ==
    /\ pc = "counting"
    /\ \/ \E e \in Thrown :
            /\ Catch(e)
            /\ UNCHANGED <<countResult, rpcCalls>>
       \/ \E r \in {"count", "error"} :
            /\ countResult' = r
            /\ rpcCalls' = Append(rpcCalls,
                   RpcArgs(queryEmbedding, PrimaryThreshold, MatchCount))
            /\ Await("primary")
    /\ UNCHANGED <<store, apiKey, request, query, queryEmbedding,
                   primaryOutcome, fallbackOutcome, path, tasks,
                   completionOrder, embedCalls, countCalls, chatCalls>>

\* what the store answers to a match_candidates call
RpcRows(args) ==
    MatchCandidates(store, args.query_embedding, args.match_threshold,
                    args.match_count)

\* the test always taken: the second retrieval issued whatever came back
AlwaysNoRows(data) == TRUE

\* if (!data || data.length === 0)
NoRows(data) == Len(data) = 0

\* the primary retrieval settles
PrimaryReturns ==
    /\ pc = "primary"
    /\ \/ \E e \in Thrown :
            /\ primaryOutcome' = [NoOutcome EXCEPT !.kind = "throw"]
            /\ Catch(e)
            /\ UNCHANGED <<rpcCalls, path, tasks, chatCalls>>
       \/ \E error \in StoreErrors :
            /\ primaryOutcome' = [NoOutcome EXCEPT !.kind = "error", !.error = error]
            /\ Return(PrimaryErrorResponse(error))
            /\ UNCHANGED <<rpcCalls, path, tasks, chatCalls>>
       \/ \E data \in RpcRows(rpcCalls[Len(rpcCalls)]) :
            /\ primaryOutcome' = [NoOutcome EXCEPT !.kind = "rows", !.rows = data]
            /\ IF NoRows(data)
               THEN /\ rpcCalls' = Append(rpcCalls,
                           RpcArgs(queryEmbedding, FallbackThreshold, MatchCount))
                    /\ Await("fallback")
                    /\ UNCHANGED <<path, tasks, chatCalls>>
               ELSE /\ FanOut("primary", data)
                    /\ UNCHANGED rpcCalls
    /\ UNCHANGED <<store, apiKey, request, query, queryEmbedding, countResult,
                   fallbackOutcome, completionOrder, embedCalls, countCalls>>

\* the fallback retrieval settles
FallbackReturns ==
    /\ pc = "fallback"
    /\ \/ \E e \in Thrown :
            /\ fallbackOutcome' = [NoOutcome EXCEPT !.kind = "throw"]
            /\ Catch(e)
            /\ UNCHANGED <<path, tasks, chatCalls>>
       \/ \E error \in StoreErrors :
            \* if (fallbackError) only logs; the primary shaping of the
            \* empty data follows
            /\ fallbackOutcome' = [NoOutcome EXCEPT !.kind = "error", !.error = error]
            /\ FanOut("primary", primaryOutcome.rows)
       \/ \E data \in RpcRows(rpcCalls[Len(rpcCalls)]) :
            /\ fallbackOutcome' = [NoOutcome EXCEPT !.kind = "rows", !.rows = data]
            /\ IF NoRows(data)
               THEN FanOut("primary", primaryOutcome.rows)
               ELSE FanOut("fallback", data)
    /\ UNCHANGED <<store, apiKey, request, query, queryEmbedding, countResult,
                   primaryOutcome, completionOrder, embedCalls, countCalls,
                   rpcCalls>>

\* reason, as the try / catch around the chat call leaves it
Reason(p, item, outcome) ==
    IF p = "fallback" THEN FallbackReason(item, outcome)
    ELSE PrimaryReason(item, outcome)

\* a chat call that is issued again once when it throws
JustificationRetried ==
    /\ pc = "justifying"
    /\ \E i \in Pending(tasks) :
         \E outcome \in ChatOutcomes(tasks[i].item.id) :
            IF outcome.throws /\ Len(chatCalls) <= Len(tasks)
            THEN /\ chatCalls' = Append(chatCalls, tasks[i].item.id)
                 /\ Await("justifying")
                 /\ UNCHANGED <<tasks, completionOrder>>
            ELSE LET ts == [tasks EXCEPT ![i] =
                              [@ EXCEPT !.state = "fulfilled",
                                        !.reason = Reason(path, tasks[i].item, outcome),
                                        !.content = outcome.content,
                                        !.failed = outcome.throws]]
                     order == Append(completionOrder, tasks[i].item.id)
                 IN  /\ tasks' = ts
                     /\ completionOrder' = order
                     /\ Join(path, ts, order)
                     /\ UNCHANGED chatCalls
    /\ UNCHANGED <<store, apiKey, request, query, queryEmbedding, countResult,
                   primaryOutcome, fallbackOutcome, path, embedCalls,
                   countCalls, rpcCalls>>

\* one chat completion call settles; the response follows the last one
JustificationReturns ==
    /\ pc = "justifying"
    /\ \E i \in Pending(tasks) :
         \E outcome \in ChatOutcomes(tasks[i].item.id) :
            LET ts == [tasks EXCEPT ![i] =
                          [@ EXCEPT !.state = "fulfilled",
                                    !.reason = Reason(path, tasks[i].item, outcome),
                                    !.content = outcome.content,
                                    !.failed = outcome.throws]]
                order == Append(completionOrder, tasks[i].item.id)
            IN  /\ tasks' = ts
                /\ completionOrder' = order
                /\ Join(path, ts, order)
    /\ UNCHANGED <<store, apiKey, request, query, queryEmbedding, countResult,
                   primaryOutcome, fallbackOutcome, path, embedCalls,
                   countCalls, rpcCalls, chatCalls>>

Next ==
    \/ ParseBody /\ UNCHANGED <<componentVars, scriptVars>>
    \/ EmbeddingReturns /\ UNCHANGED <<componentVars, scriptVars>>
    \/ CountReturns /\ UNCHANGED <<componentVars, scriptVars>>
    \/ PrimaryReturns /\ UNCHANGED <<componentVars, scriptVars>>
    \/ FallbackReturns /\ UNCHANGED <<componentVars, scriptVars>>
    \/ JustificationReturns /\ UNCHANGED <<componentVars, scriptVars>>

Spec == Init /\ [][Next]_vars

\* every awaited call settles: it returns or fails
FairSpec == Spec /\ WF_vars(Next)

-----------------------------------------------------------------------------
(* The CandidateSearch component (src/unnamed/part_000) *)

\* searches one mounted component may start
MaxSearches == 2

\* what the textarea may hold: nothing, whitespace, a padded word, a word
InputTexts == { <<>>, <<0>>, <<0, 7, 0>>, <<8>> }

\* the statuses POST answers with
Statuses == { 200, 400, 500 }

\* no request is being served
NoRequest ==
    /\ apiKey = TRUE
    /\ request = [kind |-> "null", query |-> Undefined]
    /\ pc = "parsing"
    /\ query = Undefined
    /\ queryEmbedding = NULL
    /\ countResult = "none"
    /\ primaryOutcome = NoOutcome
    /\ fallbackOutcome = NoOutcome
    /\ path = "none"
    /\ tasks = <<>>
    /\ completionOrder = <<>>
    /\ embedCalls = <<>>
    /\ countCalls = 0
    /\ rpcCalls = <<>>
    /\ chatCalls = <<>>
    /\ responses = <<>>
    /\ escaped = FALSE

\* the route at rest while the component is observed
RouteIdle == store = (CHOOSE t \in Stores : TRUE) /\ NoRequest

\* the userMessage of search n
UserMessage(n, text) ==
    [role |-> "user", search |-> n, content |-> text, candidates |-> -1]

\* the assistantMessage for results.length = n
AssistantMessage(s, n) ==
    [role |-> "assistant", search |-> s.search,
     content |-> IF n > 0 THEN <<"I", "found", n, "candidates">>
                 ELSE <<"I", "couldn't", "find", "any", "candidates">>,
     candidates |-> n]

\* the errorMessage of the catch block; every value thrown in the try block
\* is an Error
ErrorMessage(s, message) ==
    [role |-> "assistant", search |-> s.search,
     content |-> <<"Sorry,", "I", "encountered", "an", "error", "while",
                   "searching:">> \o message \o <<"Please", "try", "again.">>,
     candidates |-> -1]

\* what the body of a response that is not ok may parse to, and the message
\* of the Error the try block then throws
ErrorBodies(status) ==
    { [kind |-> "error", message |-> InvalidQueryResponse.error],
      [kind |-> "reject", message |-> <<"Unknown", "error">>],
      [kind |-> "object", message |-> <<"HTTP", "error!", "status:", status>>],
      [kind |-> "null", message |-> <<"Cannot", "read", "properties", "of", "null">>] }

\* what the body of an ok response may parse to
Bodies ==
    { [kind |-> "array", length |-> 0],
      [kind |-> "array", length |-> 2],
      [kind |-> "null", length |-> 0],
      [kind |-> "reject", length |-> 0] }

\* setMessages((prev) => [...prev, message]); finally setIsSearching(false)
Finish(s, message) ==
    /\ messages' = Append(messages, message)
    /\ isSearching' = FALSE
    /\ searches' = searches \ {s}

\* handleSubmit without its isSearching test
HandleSubmitUnguarded ==
    /\ lastEvent' = "submit"
    /\ IF ~Truthy(Trim(input))
       THEN UNCHANGED <<messages, input, isSearching, searches, fetchCalls,
                        started>>
       ELSE /\ started < MaxSearches
            /\ messages' = Append(messages, UserMessage(started + 1, Trim(input)))
            /\ input' = <<>>
            /\ isSearching' = TRUE
            /\ fetchCalls' = Append(fetchCalls, Trim(input))
            /\ searches' = searches \cup
                 { [search |-> started + 1, query |-> Trim(input),
                    pc |-> "fetch", status |-> 0] }
            /\ started' = started + 1

\* handleSubmit up to its await fetch: a submit of the form, or Enter
\* without Shift in the textarea
HandleSubmit ==
    /\ lastEvent' = "submit"
    /\ IF ~Truthy(Trim(input)) \/ isSearching
       THEN UNCHANGED <<messages, input, isSearching, searches, fetchCalls,
                        started>>
       ELSE /\ started < MaxSearches
            /\ messages' = Append(messages, UserMessage(started + 1, Trim(input)))
            /\ input' = <<>>
            /\ isSearching' = TRUE
            /\ fetchCalls' = Append(fetchCalls, Trim(input))
            /\ searches' = searches \cup
                 { [search |-> started + 1, query |-> Trim(input),
                    pc |-> "fetch", status |-> 0] }
            /\ started' = started + 1

\* the onClick of the New Search button
NewSearch ==
    /\ lastEvent' = "newSearch"
    /\ messages' = <<>>
    /\ input' = <<>>
    /\ UNCHANGED <<isSearching, searches, fetchCalls, started>>

\* setInput: typing, a suggestion, or an entry of Recent Searches
SetInput ==
    /\ lastEvent' = "input"
    /\ \E t \in InputTexts : input' = t
    /\ input' # input
    /\ UNCHANGED <<messages, isSearching, searches, fetchCalls, started>>

\* await fetch settles: it rejects, or resolves to a response
FetchSettles ==
    /\ lastEvent' = "response"
    /\ \E s \in searches :
         /\ s.pc = "fetch"
         /\ \/ Finish(s, ErrorMessage(s, <<"Failed", "to", "fetch">>))
            \/ \E status \in Statuses :
                 /\ searches' = (searches \ {s}) \cup
                      { [s EXCEPT !.pc = IF status = 200 THEN "body"
                                         ELSE "errorBody",
                                  !.status = status] }
                 /\ UNCHANGED <<messages, isSearching>>
    /\ UNCHANGED <<input, fetchCalls, started>>

\* await response.json().catch(...) of a response that is not ok settles;
\* the Error thrown from it reaches the catch block
ErrorBodySettles ==
    /\ lastEvent' = "response"
    /\ \E s \in searches :
         /\ s.pc = "errorBody"
         /\ \E b \in ErrorBodies(s.status) : Finish(s, ErrorMessage(s, b.message))
    /\ UNCHANGED <<input, fetchCalls, started>>

\* await response.json() of an ok response settles
BodySettles ==
    /\ lastEvent' = "response"
    /\ \E s \in searches :
         /\ s.pc = "body"
         /\ \E b \in Bodies :
              CASE b.kind = "array" -> Finish(s, AssistantMessage(s, b.length))
                [] b.kind = "null" ->
                     Finish(s, ErrorMessage(s, <<"Cannot", "read", "properties",
                                                 "of", "null">>))
                [] OTHER ->
                     Finish(s, ErrorMessage(s, <<"Unexpected", "token">>))
    /\ UNCHANGED <<input, fetchCalls, started>>

ComponentNext ==
    \/ HandleSubmit /\ UNCHANGED <<routeVars, scriptVars>>
    \/ NewSearch /\ UNCHANGED <<routeVars, scriptVars>>
    \/ SetInput /\ UNCHANGED <<routeVars, scriptVars>>
    \/ FetchSettles /\ UNCHANGED <<routeVars, scriptVars>>
    \/ ErrorBodySettles /\ UNCHANGED <<routeVars, scriptVars>>
    \/ BodySettles /\ UNCHANGED <<routeVars, scriptVars>>

\* the fetch and the reading of the body settle; the user owes no event
ComponentMounted == ComponentInit /\ RouteIdle /\ ScriptInit

ComponentSpec ==
    /\ ComponentMounted
    /\ [][ComponentNext]_vars
    /\ WF_vars(FetchSettles /\ UNCHANGED <<routeVars, scriptVars>>)
    /\ WF_vars(ErrorBodySettles /\ UNCHANGED <<routeVars, scriptVars>>)
    /\ WF_vars(BodySettles /\ UNCHANGED <<routeVars, scriptVars>>)

-----------------------------------------------------------------------------
(* The embedding script (src/unnamed/part_001, embedAllCandidates) *)

\* the orders a select without ORDER BY may return the rows in
Orders == { o \in [1 .. NumCandidates -> Ids] :
              \A i, j \in 1 .. NumCandidates : o[i] = o[j] => i = j }

\* .select('id, cv_info')
Selected(t, o) ==
    [i \in 1 .. NumCandidates |-> [id |-> o[i], cv_info |-> t[o[i]].cv_info]]

\* the vector text-embedding-3-small gives for a profile text
EmbeddingOf(cv_info) == <<5 + Len(cv_info)>>

\* the candidates the loop passes with continue, from index k on:
\* !candidate.cv_info
RECURSIVE Skipped(_, _)
Skipped(list, k) ==
    IF k > Len(list) \/ Truthy(list[k].cv_info) THEN <<>>
    ELSE <<[id |-> list[k].id, how |-> "skipped"]>> \o Skipped(list, k + 1)

\* the loop runs on from candidate k to its next await, the embedding call
\* of the first candidate with cv_info, or to its end; done is what is
\* known of the candidates before k
Loop(list, k, done) ==
    LET through == done \o Skipped(list, k)
        at == Len(through) + 1
    IN  /\ visited' = through
        /\ cursor' = at
        /\ candidateEmbedding' = NULL
        /\ IF at > Len(list)
           THEN /\ scriptPc' = "done"
                /\ exit' = "ok"
                /\ UNCHANGED embeddingCalls
           ELSE /\ scriptPc' = "embedding"
                /\ embeddingCalls' = Append(embeddingCalls, list[at].id)
                /\ UNCHANGED exit

\* the iteration of the candidate at the cursor has ended
Iterated(how) ==
    Loop(candidates, cursor + 1,
         Append(visited, [id |-> candidates[cursor].id, how |-> how]))

\* embedAllCandidates().catch: process.exit(1)
Fatal ==
    /\ scriptPc' = "done"
    /\ exit' = "fatal"
    /\ UNCHANGED <<candidates, cursor, candidateEmbedding, embeddingCalls,
                   updateCalls, visited, store>>

\* the select settles: it throws or returns an error, returns no rows, or
\* returns the rows of the table
FetchReturns ==
    /\ scriptPc = "fetching"
    /\ \/ Fatal
       \/ /\ scriptPc' = "done"
          /\ exit' = "ok"
          /\ UNCHANGED <<candidates, cursor, candidateEmbedding,
                         embeddingCalls, updateCalls, visited, store>>
       \/ \E o \in Orders :
            /\ candidates' = Selected(store, o)
            /\ Loop(Selected(store, o), 1, <<>>)
            /\ UNCHANGED <<updateCalls, store>>

\* an embedding call whose failure is not caught
EmbeddingFailureFatal ==
    /\ scriptPc = "embedding"
    /\ \/ Fatal
       \/ /\ candidateEmbedding' = EmbeddingOf(candidates[cursor].cv_info)
          /\ updateCalls' = Append(updateCalls, candidates[cursor].id)
          /\ scriptPc' = "updating"
          /\ UNCHANGED <<candidates, cursor, embeddingCalls, visited, exit,
                         store>>

\* openai.embeddings.create settles: it throws (or returns no data, and
\* data[0].embedding throws), or returns the vector
EmbeddingSettles ==
    /\ scriptPc = "embedding"
    /\ \/ /\ Iterated("embedding failed")
          /\ UNCHANGED <<candidates, updateCalls, store>>
       \/ /\ candidateEmbedding' = EmbeddingOf(candidates[cursor].cv_info)
          /\ updateCalls' = Append(updateCalls, candidates[cursor].id)
          /\ scriptPc' = "updating"
          /\ UNCHANGED <<candidates, cursor, embeddingCalls, visited, exit,
                         store>>

\* the update settles: it throws or returns updateError, the row as it
\* was, or it has written the embedding
UpdateSettles ==
    /\ scriptPc = "updating"
    /\ \/ /\ Iterated("update failed")
          /\ UNCHANGED <<candidates, updateCalls, store>>
       \/ /\ store' = [store EXCEPT ![candidates[cursor].id].embedding =
                                         candidateEmbedding]
          /\ Iterated("updated")
          /\ UNCHANGED <<candidates, updateCalls>>

ScriptNext ==
    \/ FetchReturns /\ UNCHANGED <<apiKey, request, pc, query, queryEmbedding,
                                   countResult, primaryOutcome, fallbackOutcome,
                                   path, tasks, completionOrder, embedCalls,
                                   countCalls, rpcCalls, chatCalls, responses,
                                   escaped, componentVars>>
    \/ EmbeddingSettles /\ UNCHANGED <<apiKey, request, pc, query, queryEmbedding,
                                   countResult, primaryOutcome, fallbackOutcome,
                                   path, tasks, completionOrder, embedCalls,
                                   countCalls, rpcCalls, chatCalls, responses,
                                   escaped, componentVars>>
    \/ UpdateSettles /\ UNCHANGED <<apiKey, request, pc, query, queryEmbedding,
                                   countResult, primaryOutcome, fallbackOutcome,
                                   path, tasks, completionOrder, embedCalls,
                                   countCalls, rpcCalls, chatCalls, responses,
                                   escaped, componentVars>>

ScriptStarted == store \in Stores /\ NoRequest /\ ComponentInit /\ ScriptInit

\* every awaited call of the script settles
ScriptSpec == ScriptStarted /\ [][ScriptNext]_vars /\ WF_vars(ScriptNext)

-----------------------------------------------------------------------------
(* Properties *)

Done == pc = "done"

\* the request carries a query that passes validation
ValidRequest == request.kind = "object" /\ ValidQuery(request.query)

\* no call to the store or to the justification service was issued
NoStoreOrChatCall == countCalls = 0 /\ rpcCalls = <<>> /\ chatCalls = <<>>

PrimaryEmpty == primaryOutcome.kind = "rows" /\ primaryOutcome.rows = <<>>

FallbackEmpty == fallbackOutcome.kind = "rows" /\ fallbackOutcome.rows = <<>>

EmptySuccess ==
    [status |-> 200, kind |-> "array", error |-> <<>>, results |-> <<>>]

\* C1: when the primary retrieval (threshold 0.3, limit 5) succeeds with no
\* rows, a fallback retrieval with the same query embedding, threshold 0.0
\* and limit 5 has been issued; when that returns no rows either, the
\* response is the empty array with success status.
C1_FallbackOnEmptyPrimary ==
    PrimaryEmpty =>
        /\ Len(rpcCalls) = 2
        /\ rpcCalls[1] = [query_embedding |-> queryEmbedding,
                          match_threshold |-> 300, match_count |-> 5]
        /\ rpcCalls[2] = [query_embedding |-> queryEmbedding,
                          match_threshold |-> 0, match_count |-> 5]
        /\ FallbackEmpty => responses = <<EmptySuccess>>

C1_Witness == PrimaryEmpty /\ FallbackEmpty /\ Done /\ Len(responses) = 1

\* the embedding call was issued and threw
EmbeddingFailed == Len(embedCalls) = 1 /\ queryEmbedding = NULL /\ pc # "embedding"

\* C2: when the embedding call throws, the response is a structured 500
\* error and no count query, retrieval or justification call is issued.
C2_EmbeddingFailureAborts ==
    EmbeddingFailed =>
        /\ Done
        /\ Len(responses) = 1
        /\ responses[1].status = 500
        /\ responses[1].kind = "error"
        /\ NoStoreOrChatCall

C2_Witness == EmbeddingFailed /\ ValidRequest /\ Done /\ Len(responses) = 1

\* C3: with the credential absent every request ends in an error response;
\* for a valid query it is the 500 'OpenAI API key is not configured',
\* and no embedding, store or justification call has been made.
C3_MissingCredential ==
    ~apiKey =>
        /\ embedCalls = <<>>
        /\ NoStoreOrChatCall
        /\ Done =>
             /\ Len(responses) = 1
             /\ responses[1].kind = "error"
             /\ responses[1].status \in {400, 500}
             /\ ValidRequest =>
                  responses[1] =
                     [status |-> 500, kind |-> "error",
                      error |-> <<"OpenAI", "API", "key", "is", "not", "configured">>,
                      results |-> <<>>]

C3_Witness == ~apiKey /\ ValidRequest /\ Done /\ Len(responses) = 1

\* the query field is the empty string or no string at all
EmptyOrNotString ==
    /\ request.kind = "object"
    /\ \/ request.query.type # "string"
       \/ request.query.val = <<>>

UsedRows ==
    IF path = "fallback" THEN fallbackOutcome.rows ELSE primaryOutcome.rows

\* a success response has been returned
SuccessSent == Done /\ Len(responses) = 1 /\ responses[1].kind = "array"

Results == responses[1].results

\* C5: in a success response every accuracy is round(similarity * 100) of
\* its row, a half rounded up, and an integer of 0 .. 100 (a similarity s
\* in thousandths rounds to a when 10a - 5 <= s < 10a + 5).
C5_AccuracyRounded ==
    SuccessSent =>
        /\ Len(Results) = Len(UsedRows)
        /\ \A i \in 1 .. Len(Results) :
             LET a == Results[i].accuracy
                 sim == UsedRows[i].similarity
             IN  /\ a \in 0 .. 100
                 /\ 10 * a - 5 <= sim
                 /\ sim < 10 * a + 5

C5_Witness ==
    /\ SuccessSent
    /\ path = "fallback"
    /\ \E i \in 1 .. Len(Results) :
         UsedRows[i].similarity = 125 /\ Results[i].accuracy = 13

\* the text is absent, empty or only whitespace
BlankText(t) == t = NULL \/ \A k \in 1 .. Len(t) : t[k] = 0

\* C6: a returned row whose cv_info is absent, empty or whitespace gets no
\* chat call, and its reason is 'No additional information available'.
C6_BlankProfileSentinel ==
    \A i \in 1 .. Len(UsedRows) :
        BlankText(UsedRows[i].cv_info) =>
            /\ \A k \in 1 .. Len(chatCalls) : chatCalls[k] # UsedRows[i].id
            /\ SuccessSent => Results[i].reason = <<90>>

C6_Witness ==
    /\ SuccessSent
    /\ path = "fallback"
    /\ \E i \in 1 .. Len(UsedRows) :
         UsedRows[i].cv_info = <<0>> /\ Results[i].reason = <<90>>

\* the reason a candidate with profile text is due from its own chat call
OwnReason(t) ==
    IF t.failed THEN t.item.cv_info
    ELSE IF t.content = <<0, 100 + t.item.id, 0>> THEN <<100 + t.item.id>>
    ELSE t.item.cv_info

\* C7: once rows are retrieved, whatever subset of the chat calls fails,
\* the request ends in a success response with one result per row; a
\* failing candidate's reason is its raw cv_info and every other candidate
\* with profile text has the reason its own call produced.
C7_FailureIsolated ==
    path # "none" =>
        /\ Len(tasks) = Len(UsedRows)
        /\ \A i \in 1 .. Len(tasks) :
             (tasks[i].state = "fulfilled" /\ ~BlankText(UsedRows[i].cv_info)) =>
                 tasks[i].reason = OwnReason(tasks[i])
        /\ IF Done
           THEN /\ SuccessSent
                /\ Len(Results) = Len(UsedRows)
                /\ \A i \in 1 .. Len(Results) :
                     ~BlankText(UsedRows[i].cv_info) =>
                         Results[i].reason = OwnReason(tasks[i])
           ELSE responses = <<>>

C7_Witness ==
    /\ SuccessSent
    /\ path = "primary"
    /\ \E i, j \in 1 .. Len(Results) :
         /\ tasks[i].failed
         /\ Results[i].reason = UsedRows[i].cv_info
         /\ ~tasks[j].failed
         /\ Results[j].reason = <<100 + UsedRows[j].id>>

\* C8: the i-th result of a success response is built from the i-th row
\* of the retrieval used, in whatever order the chat calls settled.
C8_OrderOfRows ==
    SuccessSent =>
        /\ Len(Results) = Len(UsedRows)
        /\ \A i \in 1 .. Len(Results) : Results[i].id = UsedRows[i].id

C8_Witness ==
    /\ SuccessSent
    /\ Len(UsedRows) >= 2
    /\ Len(completionOrder) >= 2
    /\ completionOrder[1] = UsedRows[2].id
    /\ completionOrder[2] = UsedRows[1].id

\* a success array of MatchResults, or an { error: string } body with
\* status 400 or 500
WellFormed(r) ==
    \/ /\ r.kind = "array"
       /\ r.status = 200
       /\ \A i \in 1 .. Len(r.results) :
            {"id", "name", "accuracy", "reason"} \subseteq DOMAIN r.results[i]
    \/ /\ r.kind = "error"
       /\ r.status \in {400, 500}
       /\ r.results = <<>>
       /\ \A k \in 1 .. Len(r.error) : r.error[k] \in STRING

\* C9: when every awaited call settles, every request ends with exactly
\* one response, a success array or a structured 400 / 500 error, and no
\* exception leaves POST uncaught.
C9_OneResponse ==
    /\ [](/\ ~escaped
          /\ Len(responses) <= 1
          /\ (Done <=> Len(responses) = 1)
          /\ \A k \in 1 .. Len(responses) : WellFormed(responses[k]))
    /\ <>(Done /\ Len(responses) = 1)

C9_Witness ==
    /\ Done
    /\ fallbackOutcome.kind = "throw"
    /\ Len(responses) = 1
    /\ responses[1].status = 500

\* C10: an empty success array is returned only when the primary and the
\* fallback retrieval both completed without error and returned no rows.
C10_EmptyOnlyWithoutError ==
    (SuccessSent /\ Results = <<>>) => (PrimaryEmpty /\ FallbackEmpty)

\* C11: every result's name is the display name of its row (column name
\* of the documented match_candidates) when the row has one, and 'Unknown'
\* only when it has none.
C11_NameFromRow ==
    SuccessSent =>
        /\ Len(Results) = Len(UsedRows)
        /\ \A i \in 1 .. Len(Results) :
             Results[i].name =
                IF Truthy(UsedRows[i].name) THEN UsedRows[i].name ELSE <<91>>

PrimaryFailed == primaryOutcome.kind \in {"error", "throw"}

PrimaryHasRows == primaryOutcome.kind = "rows" /\ primaryOutcome.rows # <<>>

\* C12: a second retrieval is issued only when the primary retrieval
\* succeeded with no rows; when it returned rows or failed, there is one
\* retrieval call and the response comes from the primary outcome alone.
C12_FallbackOnlyOnEmpty ==
    /\ Len(rpcCalls) <= 2
    /\ Len(rpcCalls) = 2 => PrimaryEmpty
    /\ fallbackOutcome.kind # "none" => PrimaryEmpty
    /\ (PrimaryFailed \/ PrimaryHasRows) =>
         /\ Len(rpcCalls) = 1
         /\ fallbackOutcome.kind = "none"
         /\ path # "fallback"
    /\ PrimaryFailed =>
         /\ Done
         /\ Len(responses) = 1
         /\ responses[1].kind = "error"
         /\ responses[1].status = 500
         /\ tasks = <<>>
    /\ (PrimaryHasRows /\ Done) =>
         /\ SuccessSent
         /\ Len(Results) = Len(primaryOutcome.rows)
         /\ \A i \in 1 .. Len(Results) :
              Results[i].id = primaryOutcome.rows[i].id

C12_Witness ==
    /\ PrimaryHasRows
    /\ SuccessSent
    /\ Len(rpcCalls) = 1
    /\ rpcCalls[1].match_threshold = 300

\* the embedding and every retrieval issued succeeded
RetrievalsSucceeded ==
    /\ primaryOutcome.kind = "rows"
    /\ PrimaryEmpty => fallbackOutcome.kind = "rows"

\* C13: when the store holds a candidate with an embedding and the
\* embedding and retrieval calls succeed, the search returns a non-empty
\* array of at most 5 results, whatever the similarities.
C13_FallbackAcceptsAll ==
    (Done /\ RetrievalsSucceeded /\ CountEmbedded(store) >= 1) =>
        /\ SuccessSent
        /\ Results # <<>>
        /\ Len(Results) <= 5

\* C14: a failed primary retrieval is answered with a 500 error and no
\* result; the message is the function-not-found one exactly when the
\* function is missing from the store, and every other failure carries
\* the store's message or 'Failed to search candidates'.
C14_FunctionNotFoundExactly ==
    primaryOutcome.kind = "error" =>
        LET e == primaryOutcome.error
            notFound == <<"Database", "function", "match_candidates", "not", "found">>
        IN  /\ Done
            /\ Len(responses) = 1
            /\ responses[1].status = 500
            /\ responses[1].kind = "error"
            /\ responses[1].results = <<>>
            /\ (responses[1].error = notFound) <=> e.missing
            /\ ~e.missing =>
                 responses[1].error \in
                    {e.message, <<"Failed", "to", "search", "candidates">>}

\* how many times x occurs in seq
Occurrences(seq, x) == Cardinality({ k \in 1 .. Len(seq) : seq[k] = x })

\* C15: no external call is issued twice: at most one embedding call, one
\* count query, one retrieval at each threshold and one chat call per
\* returned candidate, whatever the outcomes.
C15_NoRetry ==
    /\ Len(embedCalls) <= 1
    /\ countCalls <= 1
    /\ Len(rpcCalls) <= 2
    /\ Cardinality({ k \in 1 .. Len(rpcCalls) : rpcCalls[k].match_threshold = 300 }) <= 1
    /\ Cardinality({ k \in 1 .. Len(rpcCalls) : rpcCalls[k].match_threshold = 0 }) <= 1
    /\ \A k \in 1 .. Len(chatCalls) :
         /\ Occurrences(chatCalls, chatCalls[k]) = 1
         /\ \E i \in 1 .. Len(UsedRows) : UsedRows[i].id = chatCalls[k]

C15_Witness ==
    /\ SuccessSent
    /\ Len(rpcCalls) = 2
    /\ \E i \in 1 .. Len(tasks) :
         tasks[i].failed /\ Occurrences(chatCalls, tasks[i].item.id) = 1

\* the ids of the rows with profile text, in row order
RowsWithText == SelectSeq(UsedRows, LAMBDA r : ~BlankText(r.cv_info))

\* C16: no response is sent while a chat call is pending, and all chat
\* calls of a request are started together, before any of them settles.
C16_FanOutThenJoin ==
    /\ Len(responses) > 0 => Pending(tasks) = {}
    /\ Pending(tasks) # {} => pc = "justifying"
    /\ path # "none" =>
         /\ chatCalls = [k \in 1 .. Len(RowsWithText) |-> RowsWithText[k].id]
         /\ Len(completionOrder) + Cardinality(Pending(tasks)) = Len(chatCalls)
    /\ path = "none" => chatCalls = <<>>

C16_Witness ==
    /\ pc = "justifying"
    /\ Len(chatCalls) = 2
    /\ Len(completionOrder) = 1
    /\ responses = <<>>

\* C17: no step of POST changes the candidate store.
C17_StoreUnchanged == [][store' = store]_vars

C17_Witness ==
    /\ Done
    /\ countCalls = 1
    /\ Len(rpcCalls) = 2
    /\ CountEmbedded(store) >= 1

\* C18: for the same row and the same outcome of its chat call, the
\* fallback shaping and the primary shaping give the same MatchResult.
C18_PathsEquivalent ==
    /\ \A i \in 1 .. Len(tasks) :
         LET item == tasks[i].item
         IN  /\ FallbackResult(item, Sentinel) = PrimaryResult(item, Sentinel)
             /\ \A o \in ChatOutcomes(item.id) :
                  FallbackResult(item, FallbackReason(item, o))
                     = PrimaryResult(item, PrimaryReason(item, o))
    /\ SuccessSent =>
         \A i \in 1 .. Len(Results) :
             /\ Results[i] = PrimaryResult(tasks[i].item, tasks[i].reason)
             /\ Results[i] = FallbackResult(tasks[i].item, tasks[i].reason)

C18_Witness ==
    /\ SuccessSent
    /\ path = "fallback"
    /\ \E i \in 1 .. Len(Results) :
         /\ tasks[i].failed
         /\ "linkedinUrl" \in DOMAIN Results[i]

\* C19: with the store unchanged between the two retrievals, every result
\* of the fallback path has an accuracy of 0 .. 30 (a similarity in
\* (0, 0.3]); an accuracy above 30 comes from the primary retrieval.
C19_FallbackAccuracyLow ==
    SuccessSent =>
        /\ path = "fallback" =>
             \A i \in 1 .. Len(Results) :
                 /\ Results[i].accuracy \in 0 .. 30
                 /\ UsedRows[i].similarity > 0
                 /\ UsedRows[i].similarity <= 300
        /\ (\E i \in 1 .. Len(Results) : Results[i].accuracy > 30) =>
             path = "primary" /\ PrimaryHasRows

C19_Witness ==
    /\ SuccessSent
    /\ path = "fallback"
    /\ \E i \in 1 .. Len(Results) :
         UsedRows[i].similarity = 300 /\ Results[i].accuracy = 30

\* the count query has settled without throwing
Counted == countResult # "none"

\* the response the outcomes of the retrievals call for
ByRetrievals ==
    /\ primaryOutcome.kind # "none"
    /\ Len(responses) = 1
    /\ PrimaryFailed => responses[1].kind = "error" /\ responses[1].status = 500
    /\ PrimaryHasRows =>
         /\ SuccessSent
         /\ Len(Results) = Len(primaryOutcome.rows)
         /\ \A i \in 1 .. Len(Results) : Results[i].id = primaryOutcome.rows[i].id
    /\ PrimaryEmpty =>
         /\ fallbackOutcome.kind # "none"
         /\ fallbackOutcome.kind = "throw" =>
              responses[1].kind = "error" /\ responses[1].status = 500
         /\ fallbackOutcome.kind = "error" => responses[1] = EmptySuccess
         /\ fallbackOutcome.kind = "rows" =>
              /\ SuccessSent
              /\ Len(Results) = Len(fallbackOutcome.rows)
              /\ \A i \in 1 .. Len(Results) :
                   Results[i].id = fallbackOutcome.rows[i].id

\* C20: the count pre-check does not influence the request: whatever it
\* returns (a count, 0 included, or an error), the step that receives it
\* only issues the primary retrieval, and the retrieval calls and the
\* response are those the other outcomes call for.
C20_CountIgnored ==
    /\ [](Counted =>
            /\ Len(rpcCalls) >= 1
            /\ rpcCalls[1] = [query_embedding |-> queryEmbedding,
                              match_threshold |-> 300, match_count |-> 5]
            /\ Done => ByRetrievals)
    /\ [][(~Counted /\ Counted') =>
            /\ pc' = "primary"
            /\ rpcCalls' = <<[query_embedding |-> queryEmbedding,
                              match_threshold |-> 300, match_count |-> 5]>>
            /\ UNCHANGED <<store, apiKey, request, query, queryEmbedding,
                           primaryOutcome, fallbackOutcome, path, tasks,
                           completionOrder, embedCalls, countCalls,
                           chatCalls, responses, escaped>>]_vars

C20_Witness ==
    /\ countResult = "error"
    /\ SuccessSent
    /\ Results # <<>>

\* n whitespace characters
Spaces(n) == [k \in 1 .. n |-> 0]

\* r is the text c without its leading and trailing whitespace
TrimmedFrom(r, c) ==
    /\ r # <<>>
    /\ r[1] # 0
    /\ r[Len(r)] # 0
    /\ \E a, b \in 0 .. Len(c) : c = Spaces(a) \o r \o Spaces(b)

\* C21: every reason of a success response is a non-blank text: the
\* sentinel for a row of blank profile text, the trimmed generated text
\* when the chat call returned a text that is not blank, and the raw
\* profile text when the call threw or returned empty, whitespace or
\* missing content.
C21_ReasonNonBlank ==
    SuccessSent =>
        \A i \in 1 .. Len(Results) :
            LET r == Results[i].reason
                cv == UsedRows[i].cv_info
                t == tasks[i]
            IN  /\ r # NULL
                /\ ~BlankText(r)
                /\ BlankText(cv) => r = <<90>>
                /\ (~BlankText(cv) /\ ~t.failed /\ ~BlankText(t.content)) =>
                       TrimmedFrom(r, t.content)
                /\ (~BlankText(cv) /\ (t.failed \/ BlankText(t.content))) =>
                       r = cv

C21_Witness ==
    /\ SuccessSent
    /\ \E i \in 1 .. Len(Results) :
         /\ ~tasks[i].failed
         /\ tasks[i].content = <<0>>
         /\ UsedRows[i].cv_info = <<0, UsedRows[i].id, 0>>
         /\ Results[i].reason = <<0, UsedRows[i].id, 0>>
    /\ \E j \in 1 .. Len(Results) :
         /\ tasks[j].content = <<0, 100 + UsedRows[j].id, 0>>
         /\ Results[j].reason = <<100 + UsedRows[j].id>>

\* C22: in CandidateSearch at most one search is in flight; a submit
\* with blank input, or while isSearching, sends nothing and appends
\* nothing; and every search started is finished, with isSearching set
\* back to false, whether the request succeeded, was answered with an
\* error status, or threw.
C22_OneSearchAtATime ==
    /\ [](/\ Cardinality(searches) <= 1
          /\ searches # {} => isSearching
          /\ Len(fetchCalls) = started)
    /\ [][(lastEvent' = "submit" /\ (BlankText(input) \/ isSearching)) =>
             UNCHANGED <<messages, input, isSearching, searches, fetchCalls,
                         started>>]_vars
    /\ isSearching ~> ~isSearching
    /\ \A n \in 1 .. MaxSearches :
         (started >= n) ~> (\A s \in searches : s.search # n)

C22_Witness ==
    /\ lastEvent = "submit"
    /\ isSearching
    /\ input = <<8>>
    /\ started = 1
    /\ \E s \in searches : s.pc = "errorBody"

\* C23: the transcript of CandidateSearch is a sequence of pairs: every
\* assistant message comes right after the user message of the search it
\* answers, and the user message of a finished search is followed by
\* exactly one assistant message.
C23_TranscriptPairs ==
    \A i \in 1 .. Len(messages) :
        /\ messages[i].role = "assistant" =>
             /\ i > 1
             /\ messages[i - 1].role = "user"
             /\ messages[i - 1].search = messages[i].search
        /\ (/\ messages[i].role = "user"
            /\ \A s \in searches : s.search # messages[i].search) =>
             /\ i < Len(messages)
             /\ messages[i + 1].role = "assistant"
             /\ messages[i + 1].search = messages[i].search
             /\ i + 2 <= Len(messages) => messages[i + 2].role = "user"

\* the ids of a list of records, in order
IdsOf(list) == [i \in 1 .. Len(list) |-> list[i].id]

\* the candidates, among those the loop is through with, that ended so
Ended(hows) == SelectSeq(visited, LAMBDA v : v.how \in hows)

\* C24: embedAllCandidates goes through the fetched candidates once each,
\* in the order fetched, and then ends: a candidate without cv_info gets
\* no embedding call, a candidate whose embedding call or update failed
\* keeps its stored embedding and the loop goes on after it, and only a
\* failed fetch of the list aborts the run.
C24_EveryCandidateOnce ==
    /\ [](/\ Len(visited) <= Len(candidates)
          /\ IdsOf(visited) = SubSeq(IdsOf(candidates), 1, Len(visited))
          /\ \A i \in 1 .. Len(visited) :
               visited[i].how = "skipped" <=> ~Truthy(candidates[i].cv_info)
          /\ IdsOf(Ended({"embedding failed", "update failed", "updated"}))
               = SubSeq(embeddingCalls, 1, Len(visited) - Len(Ended({"skipped"})))
          /\ IdsOf(Ended({"update failed", "updated"}))
               = SubSeq(updateCalls, 1, Len(Ended({"update failed", "updated"})))
          /\ exit = "ok" => Len(visited) = Len(candidates)
          /\ exit = "fatal" => candidates = <<>> /\ embeddingCalls = <<>>)
    /\ [][/\ \A i \in Len(visited) + 1 .. Len(visited') :
               visited'[i].how # "updated" =>
                   store'[visited'[i].id] = store[visited'[i].id]
          /\ \A id \in Ids :
               store'[id] # store[id] =>
                   /\ \E i \in Len(visited) + 1 .. Len(visited') :
                        visited'[i] = [id |-> id, how |-> "updated"]
                   /\ store'[id] = [store[id] EXCEPT
                                      !.embedding = candidateEmbedding]]_vars
    /\ <>(exit # "running")
    /\ (candidates # <<>>) ~> (exit = "ok")

C24_Witness ==
    /\ exit = "ok"
    /\ Len(visited) = NumCandidates
    /\ visited[1].how \in {"embedding failed", "update failed"}
    /\ visited[2].how = "updated"
    /\ store[visited[1].id].embedding = <<1>>
    /\ store[visited[2].id].embedding = <<6>>

====
